---- MODULE Spec2Model ----
(***************************************************************************)
(* wordpathgame (src/main.rs): generate-dict reads a list of words and     *)
(* writes, for each word, the line "<word>[ <neighbor>]*\n"; find-path     *)
(* loads such a file into a map word -> set of neighbors and runs a        *)
(* breadth-first search from start_word, then prints the path to end_word. *)
(* Words and files are sequences of bytes (integers).                      *)
(***************************************************************************)
EXTENDS Integers, Sequences, FiniteSets, TLC

VARIABLES
    pc,               \* "cli" | "loaded" | "search" | "done": how far the run has got
    words_file,       \* bytes of the file of words (main.rs:69)
    dict_file,        \* bytes of the dictionary generate_dict wrote (main.rs:90-97)
    generated,        \* TRUE once generate_dict has written dict_file
    available_words,  \* generate_dict: HashSet<Vec<u8>> (main.rs:72)
    dict,             \* find_path: HashMap<Vec<u8>, HashSet<Vec<u8>>> (main.rs:144)
    start_word,       \* find_path argument (main.rs:165)
    end_word,         \* find_path argument (main.rs:166)
    path,             \* find_path: VecDeque, the BFS frontier (main.rs:179)
    used,             \* find_path: HashMap<&[u8], bool> (main.rs:182)
    previous,         \* find_path: HashMap<&[u8], &[u8]> (main.rs:183)
    pushed,           \* history: every word handed to path.push_back (main.rs:180, 198)
    prev_writes,      \* history: every key handed to previous.insert (main.rs:185, 199)
    outcome,          \* what find_path printed or how it failed
    named,            \* the word printed in "'..' is not in the dictionnary" (main.rs:172)
    reverse_path      \* the words printed after "found path:", in order (main.rs:215-218)

vars == <<pc, words_file, dict_file, generated, available_words, dict,
          start_word, end_word, path, used, previous, pushed, prev_writes,
          outcome, named, reverse_path>>

----------------------------------------------------------------------------
(* Bytes *)

NL == 10    \* b'\n'
SP == 32    \* b' '

\* "abcdefghijklmnopqrstuvwxyz".as_bytes()
ALPHA == [i \in 1..26 |-> 96 + i]

AlphaBytes == {ALPHA[i] : i \in 1..26}

----------------------------------------------------------------------------
(* Bounded inputs *)

MaxLines == 3

\* The lines a file is made of: "", "a", "A", " a", "a b bb", "aa", "ab", "bb".
Vocabulary ==
    { <<>>, <<97>>, <<65>>, <<32, 97>>, <<97, 32, 98, 32, 98, 98>>,
      <<97, 97>>, <<97, 98>>, <<98, 98>> }

\* The words given on find-path's command line: "", "a", "aa", "bb".
Queries == { <<>>, <<97>>, <<97, 97>>, <<98, 98>> }

RECURSIVE JoinLines(_)
JoinLines(ls) ==
    IF ls = <<>> THEN <<>>
    ELSE IF Len(ls) = 1 THEN ls[1]
    ELSE ls[1] \o <<NL>> \o JoinLines(Tail(ls))

\* Every file of at most MaxLines lines, with or without the final newline.
Files ==
    UNION { { JoinLines(ls), JoinLines(ls) \o <<NL>> } :
            ls \in UNION { [1..n -> Vocabulary] : n \in 0..MaxLines } }

\* Every order in which a HashSet / HashMap iterator can yield the elements of S.
Orders(S) ==
    { s \in [1..Cardinality(S) -> S] : \A i, j \in 1..Cardinality(S) : s[i] = s[j] => i = j }

RECURSIVE Concat(_)
Concat(ss) == IF ss = <<>> THEN <<>> ELSE Head(ss) \o Concat(Tail(ss))

Range(s) == {s[i] : i \in 1..Len(s)}

----------------------------------------------------------------------------
(* BufRead::read_until(b'\n', &mut buf) and the loop around it *)

\* nread: bytes up to and including the first NL, or all that is left.
read_until(bytes) ==
    IF \E i \in 1..Len(bytes) : bytes[i] = NL
    THEN CHOOSE i \in 1..Len(bytes) : bytes[i] = NL /\ \A j \in 1..(i - 1) : bytes[j] # NL
    ELSE Len(bytes)

\* The sequence of buf[0..nread - 1] slices the loop sees until nread = 0.
RECURSIVE read_lines(_)
read_lines(bytes) ==
    LET nread == read_until(bytes) IN
    IF nread = 0 THEN <<>>
    ELSE <<SubSeq(bytes, 1, nread - 1)>> \o read_lines(SubSeq(bytes, nread + 1, Len(bytes)))

----------------------------------------------------------------------------
(* compute_neighbors *)

\* The (idx, letter) pairs in the order the two nested loops try them:
\* for idx in 0..word.len() { for &letter in ALPHA { ... } }
tries(word) ==
    [k \in 1..(Len(word) * 26) |-> <<((k - 1) \div 26) + 1, ALPHA[((k - 1) % 26) + 1]>>]

\* word[idx] = letter
substituted(word, t) == [word EXCEPT ![t[1]] = t[2]]

\* A try writes a neighbor when the letter differs from the original one and the
\* substituted word is contained in available_words.
writes_neighbor(word, words, t) == word[t[1]] # t[2] /\ substituted(word, t) \in words

\* The neighbors written after the word, in writing order.
neighbor_list(word, words) ==
    LET Test(t) == writes_neighbor(word, words, t)
        kept == SelectSeq(tries(word), Test)
    IN [i \in 1..Len(kept) |-> substituted(word, kept[i])]

\* The bytes compute_neighbors writes for one word.
compute_neighbors(word, words) ==
    word
    \o Concat([i \in 1..Len(neighbor_list(word, words)) |->
                  <<SP>> \o neighbor_list(word, words)[i]])
    \o <<NL>>

----------------------------------------------------------------------------

Init ==
    /\ pc = "cli"
    /\ words_file \in Files
    /\ dict_file = <<>>
    /\ generated = FALSE
    /\ available_words = {}
    /\ dict = <<>>
    /\ start_word = <<>>
    /\ end_word = <<>>
    /\ path = <<>>
    /\ used = <<>>
    /\ previous = <<>>
    /\ pushed = <<>>
    /\ prev_writes = <<>>
    /\ outcome = "none"
    /\ named = <<>>
    /\ reverse_path = <<>>

\* generate_dict: read the words, then write one compute_neighbors line per word,
\* in the order the HashSet iterator yields them.
generate_dict ==
    /\ pc = "cli"
    /\ ~generated
    /\ LET words == Range(read_lines(words_file)) IN
       /\ available_words' = words
       /\ \E order \in Orders(words) :
             dict_file' = Concat([i \in 1..Len(order) |-> compute_neighbors(order[i], words)])
    /\ generated' = TRUE
    /\ UNCHANGED <<pc, words_file, dict, start_word, end_word, path, used,
                   previous, pushed, prev_writes, outcome, named, reverse_path>>

----------------------------------------------------------------------------
(* find_path: loading the dictionary *)

\* line.split(|&b| b == b' '): the pieces between the spaces; never fewer than one.
RECURSIVE split(_)
split(line) ==
    IF \E i \in 1..Len(line) : line[i] = SP
    THEN LET i == CHOOSE i \in 1..Len(line) :
                      line[i] = SP /\ \A j \in 1..(i - 1) : line[j] # SP
         IN <<SubSeq(line, 1, i - 1)>> \o split(SubSeq(line, i + 1, Len(line)))
    ELSE <<line>>

\* HashMap::insert: a later value for the same key replaces the earlier one.
insert(map, k, v) == [x \in (DOMAIN map) \cup {k} |-> IF x = k THEN v ELSE map[x]]

\* parts.next().ok_or(anyhow!("empty line???")) fails on a line without a first piece.
load_fails(lines) == \E i \in 1..Len(lines) : split(lines[i]) = <<>>

\* The map after the loader has inserted every line, in file order.
RECURSIVE load_lines(_, _)
load_lines(lines, map) ==
    IF lines = <<>> THEN map
    ELSE LET parts == split(Head(lines)) IN
         load_lines(Tail(lines), insert(map, Head(parts), Range(Tail(parts))))

\* File::open(dict): the file named on find-path's command line.
opened_file == IF generated THEN dict_file ELSE words_file

\* find_path, lines 140-162: open the file named on the command line and load it.
\* After generate-dict that file is the dictionary it wrote; find-path can also be
\* pointed at a file no generate-dict has written.
find_path_load ==
    /\ pc = "cli"
    /\ LET lines == read_lines(opened_file) IN
       IF load_fails(lines)
       THEN /\ outcome' = "empty line???"
            /\ pc' = "done"
            /\ dict' = dict
       ELSE /\ outcome' = outcome
            /\ pc' = "loaded"
            /\ dict' = load_lines(lines, <<>>)
    /\ UNCHANGED <<words_file, dict_file, generated, available_words, start_word, end_word,
                   path, used, previous, pushed, prev_writes, named, reverse_path>>

----------------------------------------------------------------------------
(* find_path: the search *)

\* for word in [start_word, end_word] { if !dict.contains_key(word) { ... } }
missing_word(map, s, e) == s \notin DOMAIN map \/ e \notin DOMAIN map

\* The word the message prints: std::str::from_utf8(start_word).
reported_word(map, s, e) == s

\* find_path, lines 165-185: check the two words given on the command line, then
\* seed the search.
find_path_check ==
    /\ pc = "loaded"
    /\ \E s, e \in Queries :
          /\ start_word' = s
          /\ end_word' = e
          /\ IF missing_word(dict, s, e)
             THEN /\ outcome' = "not in the dictionnary"
                  /\ named' = reported_word(dict, s, e)
                  /\ pc' = "done"
                  /\ UNCHANGED <<path, used, previous, pushed, prev_writes>>
             ELSE /\ path' = <<s>>
                  /\ used' = insert(<<>>, s, TRUE)
                  /\ previous' = insert(<<>>, s, <<>>)
                  /\ pushed' = <<s>>
                  /\ prev_writes' = <<s>>
                  /\ pc' = "search"
                  /\ UNCHANGED <<outcome, named>>
    /\ UNCHANGED <<words_file, dict_file, generated, available_words, dict,
                   reverse_path>>

\* *used.get(neighbor).unwrap_or(&false)
is_used(map, w) == IF w \in DOMAIN map THEN map[w] ELSE FALSE

\* The same body without the `used` test.
visit_unchecked(st, neighbor, current_word) ==
    [used        |-> insert(st.used, neighbor, TRUE),
     path        |-> Append(st.path, neighbor),
     previous    |-> insert(st.previous, neighbor, current_word),
     pushed      |-> Append(st.pushed, neighbor),
     prev_writes |-> Append(st.prev_writes, neighbor)]

\* The body of `for neighbor in neighbors`, lines 195-200, on the search state st.
visit(st, neighbor, current_word) ==
    IF ~is_used(st.used, neighbor)
    THEN [used        |-> insert(st.used, neighbor, TRUE),
          path        |-> Append(st.path, neighbor),
          previous    |-> insert(st.previous, neighbor, current_word),
          pushed      |-> Append(st.pushed, neighbor),
          prev_writes |-> Append(st.prev_writes, neighbor)]
    ELSE st

RECURSIVE visit_all(_, _, _)
visit_all(st, order, current_word) ==
    IF order = <<>> THEN st
    ELSE visit_all(visit(st, Head(order), current_word), Tail(order), current_word)

\* One iteration of `while !path.is_empty()`, lines 187-202.
search_step ==
    /\ pc = "search"
    /\ path # <<>>
    /\ LET current_word == Head(path) IN
       IF current_word \notin DOMAIN dict
       THEN /\ path' = Tail(path)
            /\ outcome' = "value not in dict???"
            /\ pc' = "done"
            /\ UNCHANGED <<used, previous, pushed, prev_writes>>
       ELSE /\ \E order \in Orders(dict[current_word]) :
                 LET st == visit_all([used |-> used, path |-> Tail(path),
                                      previous |-> previous, pushed |-> pushed,
                                      prev_writes |-> prev_writes],
                                     order, current_word)
                 IN /\ used' = st.used
                    /\ path' = st.path
                    /\ previous' = st.previous
                    /\ pushed' = st.pushed
                    /\ prev_writes' = st.prev_writes
            /\ UNCHANGED <<outcome, pc>>
    /\ UNCHANGED <<words_file, dict_file, generated, available_words, dict,
                   start_word, end_word, named, reverse_path>>

\* while !value.is_empty() { reverse_path.push(value); value = previous[value]; }
RECURSIVE walk_back(_, _)
walk_back(value, prev) ==
    IF value = <<>> THEN <<>> ELSE <<value>> \o walk_back(prev[value], prev)

Reverse(s) == [i \in 1..Len(s) |-> s[Len(s) + 1 - i]]

\* How lines 204-219 end: used[end_word] panics on a key that was never inserted.
report(usedmap, e) ==
    IF e \notin DOMAIN usedmap THEN "panic: key not found"
    ELSE IF ~usedmap[e] THEN "no path found"
    ELSE "found path"

\* find_path, lines 204-221: the frontier is empty; report.
find_path_report ==
    /\ pc = "search"
    /\ path = <<>>
    /\ outcome' = report(used, end_word)
    /\ reverse_path' = IF report(used, end_word) = "found path"
                       THEN Reverse(walk_back(end_word, previous))
                       ELSE reverse_path
    /\ pc' = "done"
    /\ UNCHANGED <<words_file, dict_file, generated, available_words, dict,
                   start_word, end_word, path, used, previous, pushed, prev_writes, named>>

Next ==
    \/ generate_dict
    \/ find_path_load
    \/ find_path_check
    \/ search_step
    \/ find_path_report

Spec == Init /\ [][Next]_vars

----------------------------------------------------------------------------
(* Notions the properties are stated in *)

NoDuplicates(s) == \A i, j \in 1..Len(s) : s[i] = s[j] => i = j

\* Every word that occurs in the graph, as a key or as a neighbor.
graph_words(map) == (DOMAIN map) \cup UNION {map[w] : w \in DOMAIN map}

\* Reference search: the words within n edges of s.
RECURSIVE within(_, _, _)
within(map, s, n) ==
    IF n = 0 THEN {s}
    ELSE LET near == within(map, s, n - 1)
         IN near \cup UNION {map[w] : w \in near \cap DOMAIN map}

\* Reference search: the least number of edges from s to e (e reachable from s).
min_hops(map, s, e) ==
    CHOOSE n \in 0..Cardinality(graph_words(map)) :
        /\ e \in within(map, s, n)
        /\ n = 0 \/ e \notin within(map, s, n - 1)

\* The file holds an empty line: it starts with a newline or has two in a row.
has_empty_line(bytes) ==
    \/ Len(bytes) >= 1 /\ bytes[1] = NL
    \/ \E i \in 1..(Len(bytes) - 1) : bytes[i] = NL /\ bytes[i + 1] = NL

\* The word list the spec's loader accepts: not empty, one common non-zero length,
\* every byte in the alphabet.
valid_word_set(words) ==
    /\ words # {}
    /\ \A v, w \in words : Len(v) = Len(w)
    /\ \A w \in words : Len(w) > 0 /\ \A i \in 1..Len(w) : w[i] \in AlphaBytes

\* The search of find_path has run (the frontier was seeded) and the command ended.
search_ended == pc = "done" /\ pushed # <<>>

\* The word popped last.
last_popped == pushed[Len(pushed) - Len(path)]

----------------------------------------------------------------------------
(* Properties *)

\* C1: whenever find_path prints a path (start and end both keys, end reachable),
\* the printed path has as many hops (words minus one) as the least number of
\* edges from start_word to end_word in the loaded graph.
C1_ShortestPath ==
    outcome = "found path" =>
        Len(reverse_path) - 1 = min_hops(dict, start_word, end_word)

\* C2: when start and end are keys and the frontier empties without end_word ever
\* having been marked used, find_path reports "no path found" and ends normally.
C2_NoPathReported ==
    (search_ended /\ path = <<>> /\ outcome # "value not in dict???"
     /\ end_word \notin Range(pushed))
        => outcome = "no path found"

\* C3: the word named in the "not in the dictionnary" report is a word that is
\* absent from the graph (the end word when only the end word is absent).
C3_NamesAbsentWord ==
    outcome = "not in the dictionnary" => named \notin DOMAIN dict

\* C4: for every key w of the loaded graph, the zero-length word included,
\* find_path with start = end = w prints the one-word path <<w>>.
C4_TrivialPath ==
    (outcome = "found path" /\ start_word = end_word)
        => reverse_path = <<start_word>>

\* C5: for all words A, B that generate_dict loaded, B is in the neighbor list
\* written for A if and only if A is in the neighbor list written for B.
C5_Symmetric ==
    generated =>
        \A A, B \in available_words :
            B \in Range(neighbor_list(A, available_words))
                <=> A \in Range(neighbor_list(B, available_words))

\* C6: loading the dictionary generate_dict wrote yields a map whose keys are
\* exactly the words and whose neighbor sets are exactly the ones written.
C6_RoundTrip ==
    (generated /\ pc = "loaded") =>
        /\ DOMAIN dict = available_words
        /\ \A w \in available_words : dict[w] = Range(neighbor_list(w, available_words))

\* C7: generate_dict writes a graph only for a word list that is not empty, has
\* one common non-zero length and uses only bytes of the alphabet; on any other
\* list it fails instead of writing.
C7_RejectsInvalidWordList ==
    generated => valid_word_set(available_words)

\* C8: loading a file that holds an empty line fails with "empty line???": the
\* load does not succeed and no map entry is made for the empty line.
C8_EmptyLineRejected ==
    (pc # "cli" /\ has_empty_line(opened_file)) => outcome = "empty line???"

\* C9 as stated: each word is pushed at most once and its predecessor is written
\* only then; the frontier never holds more entries than the graph has words
\* (counting every word that occurs in it), and the search loop ends by reaching
\* an empty frontier.
C9_AsStated ==
    pushed # <<>> =>
        /\ NoDuplicates(pushed)
        /\ prev_writes = pushed
        /\ Len(path) <= Cardinality(graph_words(dict))
        /\ search_ended => path = <<>> /\ outcome # "value not in dict???"

\* C9 as amended: each word is marked used and pushed onto the frontier at most
\* once, and its predecessor entry is written only at that moment; the frontier
\* never holds more entries, and the loop never pops more words, than there are
\* distinct words occurring in the graph as keys or as neighbors; while the
\* search runs a step is always possible, and it ends either on an empty
\* frontier or with "value not in dict???" at a popped word that is not a key.
C9_VisitedOnce ==
    pushed # <<>> =>
        /\ NoDuplicates(pushed)
        /\ prev_writes = pushed
        /\ DOMAIN used = Range(pushed)
        /\ DOMAIN previous = Range(pushed)
        /\ previous[pushed[1]] = <<>>
        /\ Range(pushed) \subseteq graph_words(dict)
        /\ Len(path) <= Cardinality(graph_words(dict))
        /\ Len(pushed) - Len(path) <= Cardinality(graph_words(dict))
        /\ pc = "search" => ENABLED (search_step \/ find_path_report)
        /\ search_ended =>
              \/ path = <<>> /\ outcome # "value not in dict???"
                    /\ Range(pushed) \subseteq DOMAIN dict
              \/ outcome = "value not in dict???" /\ last_popped \notin DOMAIN dict

\* C9 witness: a search that ran to an empty frontier over at least three words
\* and met, at some popped word, a neighbor that was already used.
C9_Witness ==
    /\ search_ended
    /\ path = <<>>
    /\ Len(pushed) >= 3
    /\ \E w \in Range(pushed) \cap DOMAIN dict :
          \E n \in dict[w] : n \in DOMAIN previous /\ previous[n] # w

\* C10: on a dictionary written by generate_dict the lookup of a popped word
\* always succeeds: "value not in dict???" is never the outcome.
C10_LookupSucceeds ==
    generated => outcome # "value not in dict???"

====
